---- MODULE Spec2Model ----
(***************************************************************************)
(* A model of the bouncing-balls physics kernel (src/unnamed/part_000):    *)
(* Vector2d, QuadraticEquation, Ball (update, collideBy, collisionDetect), *)
(* deoverlap, collide, initializeBalls and loop.                           *)
(*                                                                         *)
(* Numbers.  The program computes with JavaScript numbers.  The model      *)
(* computes with exact reals of the form p + q*sqrt(r), p, q, r rational,  *)
(* together with the IEEE special values NaN, Infinity and -Infinity that  *)
(* a division by zero produces.  Rounding is not modelled: a statement     *)
(* "within floating tolerance" is read as an exact statement over the      *)
(* reals.  Signed zeros are not distinguished.  Masses, momenta and        *)
(* kinetic energies are carried as multiples of Math.PI, the common factor *)
(* of every mass.                                                          *)
(***************************************************************************)
EXTENDS Integers, Sequences, FiniteSets, TLC

VARIABLES
    balls,               \* the global array `balls` (a sequence of Ball records)
    started,             \* TRUE once initializeBalls() has run
    frames,              \* number of animation frames loop() has run
    totalKineticEnergy,  \* what loop() last wrote to kineticEnergyInfo
    totalMomentum,       \* what loop() last wrote to momentumInfo
    processed,           \* the pairs <<this, ball>> the last loop() handed to deoverlap/collide, in order
    rgbCalls,            \* number of randomRGB() calls so far
    qe,                  \* a QuadraticEquation object
    rootNum,             \* result of qe.numberOfRealRoots()
    rootsOut,            \* result of qe.roots()
    b1, b2,              \* two Ball objects, the arguments of collide, deoverlap or update
    in1, in2,            \* the same two objects as they were before the call
    called               \* the function that was applied to b1, b2 ("none" before)

vars == <<balls, started, frames, totalKineticEnergy, totalMomentum, processed, rgbCalls,
          qe, rootNum, rootsOut, b1, b2, in1, in2, called>>

worldVars == <<balls, started, frames, totalKineticEnergy, totalMomentum, processed, rgbCalls>>
qeVars == <<qe, rootNum, rootsOut>>
pairVars == <<b1, b2, in1, in2, called>>

(***************************************************************************)
(* Integers and rationals.  A rational is [n |-> numerator, d |-> den],    *)
(* in lowest terms with d > 0.                                             *)
(***************************************************************************)
Abs(i) == IF i < 0 THEN -i ELSE i

Sgn(i) == IF i > 0 THEN 1 ELSE IF i < 0 THEN -1 ELSE 0

RECURSIVE Gcd(_, _)
Gcd(a, b) == IF b = 0 THEN a ELSE Gcd(b, a % b)

Frac(n, d) ==
    LET g == Gcd(Abs(n), Abs(d))
    IN  [n |-> Sgn(d) * (n \div g), d |-> Abs(d) \div g]

QZero == [n |-> 0, d |-> 1]

QOne == [n |-> 1, d |-> 1]

QAdd(x, y) ==
    LET g == Gcd(x.d, y.d)
    IN  Frac(x.n * (y.d \div g) + y.n * (x.d \div g), (x.d \div g) * y.d)

QNeg(x) == [n |-> -x.n, d |-> x.d]

QMul(x, y) ==
    LET g1 == Gcd(Abs(x.n), y.d)
        g2 == Gcd(Abs(y.n), x.d)
    IN  IF x.n = 0 \/ y.n = 0 THEN QZero
        ELSE [n |-> (x.n \div g1) * (y.n \div g2), d |-> (x.d \div g2) * (y.d \div g1)]

QInv(x) == [n |-> Sgn(x.n) * x.d, d |-> Abs(x.n)]

\* The sign of a/b - c/d for b > 0 and d > 0, by continued fractions (no products).
RECURSIVE Compare(_, _, _, _)
Compare(a, b, c, d) ==
    LET fa == a \div b
        fc == c \div d
        ra == a - fa * b
        rc == c - fc * d
    IN  IF fa # fc THEN Sgn(fa - fc)
        ELSE IF ra = 0 \/ rc = 0 THEN Sgn(ra - rc)
        ELSE Compare(d, rc, b, ra)

QLess(x, y) == Compare(x.n, x.d, y.n, y.d) < 0

RECURSIVE SqrtSearch(_, _, _)
SqrtSearch(n, lo, hi) ==
    IF lo >= hi THEN lo
    ELSE SqrtSearch(n,
                    IF (lo + hi + 1) \div 2 <= n \div ((lo + hi + 1) \div 2)
                    THEN (lo + hi + 1) \div 2 ELSE lo,
                    IF (lo + hi + 1) \div 2 <= n \div ((lo + hi + 1) \div 2)
                    THEN hi ELSE (lo + hi + 1) \div 2 - 1)

\* The integer square root (46340 is the largest integer whose square is an int).
ISqrt(n) == SqrtSearch(n, 0, IF n < 46340 THEN n ELSE 46340)

(***************************************************************************)
(* Numbers.  A rational number is the record [n, d] above; the real        *)
(* p + q*sqrt(r) with q # 0 and r no rational square is [p, q, r]; the     *)
(* IEEE special values are [k |-> "NaN"], [k |-> "Infinity"] and           *)
(* [k |-> "-Infinity"].                                                    *)
(***************************************************************************)
NaN == [k |-> "NaN"]

Infinity == [k |-> "Infinity"]

NegInfinity == [k |-> "-Infinity"]

IsFinite(x) == "k" \notin DOMAIN x

IsRational(x) == "n" \in DOMAIN x

IsNaN(x) == ~IsFinite(x) /\ x.k = "NaN"

\* The parts of a finite number p + q*sqrt(r).
P(x) == IF IsRational(x) THEN x ELSE x.p

Q(x) == IF IsRational(x) THEN QZero ELSE x.q

R(x) == IF IsRational(x) THEN QZero ELSE x.r

\* p + q*sqrt(r), for r = 0 or r no rational square.
Fin(p, q, r) == IF q.n = 0 \/ r.n = 0 THEN p ELSE [p |-> p, q |-> q, r |-> r]

\* sqrt(r) for a rational r > 0, given the integer square roots of r's parts.
Root(r, sn, sd) ==
    IF sn * sn = r.n /\ sd * sd = r.d THEN Frac(sn, sd) ELSE [p |-> QZero, q |-> QOne, r |-> r]

Num(n, d) == Frac(n, d)

Int2Num(i) == Frac(i, 1)

\* The radicand two finite numbers share (one of them may be rational).
Radicand(x, y) ==
    CASE IsRational(x) -> R(y)
      [] IsRational(y) -> R(x)
      [] x.r = y.r -> x.r

\* The sign of a finite number: -1, 0 or 1.
Sign(x) ==
    IF IsRational(x) THEN Sgn(x.n)
    ELSE IF x.p.n = 0 THEN Sgn(x.q.n)
    ELSE IF Sgn(x.p.n) = Sgn(x.q.n) THEN Sgn(x.p.n)
    ELSE IF QLess(QMul(QMul(x.q, x.q), x.r), QMul(x.p, x.p)) THEN Sgn(x.p.n)
    ELSE Sgn(x.q.n)

\* The sign of a number other than NaN.
SignOf(x) ==
    IF IsFinite(x) THEN Sign(x) ELSE IF x.k = "Infinity" THEN 1 ELSE -1

Neg(x) ==
    IF IsFinite(x) THEN Fin(QNeg(P(x)), QNeg(Q(x)), R(x))
    ELSE IF x.k = "NaN" THEN NaN
    ELSE IF x.k = "Infinity" THEN NegInfinity
    ELSE Infinity

Add(x, y) ==
    IF IsNaN(x) \/ IsNaN(y) THEN NaN
    ELSE IF IsFinite(x) /\ IsFinite(y)
         THEN Fin(QAdd(P(x), P(y)), QAdd(Q(x), Q(y)), Radicand(x, y))
    ELSE IF IsFinite(x) THEN y
    ELSE IF IsFinite(y) \/ x.k = y.k THEN x
    ELSE NaN

Sub(x, y) == Add(x, Neg(y))

Mul(x, y) ==
    IF IsNaN(x) \/ IsNaN(y) THEN NaN
    ELSE IF IsFinite(x) /\ IsFinite(y)
         THEN LET r == Radicand(x, y)
              IN  Fin(QAdd(QMul(P(x), P(y)), QMul(QMul(Q(x), Q(y)), r)),
                      QAdd(QMul(P(x), Q(y)), QMul(Q(x), P(y))), r)
    ELSE IF SignOf(x) * SignOf(y) = 0 THEN NaN
    ELSE IF SignOf(x) * SignOf(y) > 0 THEN Infinity
    ELSE NegInfinity

\* 1 / y for a finite y other than zero: the conjugate over the norm.
Recip(y) ==
    LET n == QAdd(QMul(P(y), P(y)), QNeg(QMul(QMul(Q(y), Q(y)), R(y))))
    IN  Fin(QMul(P(y), QInv(n)), QNeg(QMul(Q(y), QInv(n))), R(y))

Div(x, y) ==
    IF IsNaN(x) \/ IsNaN(y) THEN NaN
    ELSE IF IsFinite(x) /\ IsFinite(y)
         THEN IF Sign(y) # 0 THEN Mul(x, Recip(y))
              ELSE IF Sign(x) = 0 THEN NaN
              ELSE IF Sign(x) > 0 THEN Infinity ELSE NegInfinity
    ELSE IF IsFinite(x) THEN Int2Num(0)
    ELSE IF ~IsFinite(y) THEN NaN
    ELSE IF SignOf(x) * (IF Sign(y) < 0 THEN -1 ELSE 1) > 0 THEN Infinity
    ELSE NegInfinity

\* x < y as JavaScript evaluates it: false when either side is NaN.
Less(x, y) ==
    IF IsNaN(x) \/ IsNaN(y) THEN FALSE
    ELSE IF IsFinite(x) /\ IsFinite(y) THEN Sign(Sub(x, y)) < 0
    ELSE IF IsFinite(x) THEN y.k = "Infinity"
    ELSE IF IsFinite(y) THEN x.k = "-Infinity"
    ELSE x.k = "-Infinity" /\ y.k = "Infinity"

\* x === y on numbers: false when either side is NaN.
StrictEq(x, y) ==
    IF IsNaN(x) \/ IsNaN(y) THEN FALSE
    ELSE IF IsFinite(x) /\ IsFinite(y) THEN Sign(Sub(x, y)) = 0
    ELSE IF IsFinite(x) \/ IsFinite(y) THEN FALSE
    ELSE x.k = y.k

LessEq(x, y) == Less(x, y) \/ StrictEq(x, y)

\* Math.sqrt of a rational number or a special value.
Sqrt(x) ==
    CASE IsNaN(x) -> NaN
      [] ~IsFinite(x) -> IF x.k = "Infinity" THEN Infinity ELSE NaN
      [] IsRational(x) -> IF x.n < 0 THEN NaN ELSE IF x.n = 0 THEN x ELSE Root(x, ISqrt(x.n), ISqrt(x.d))

(***************************************************************************)
(* class QuadraticEquation                                                 *)
(***************************************************************************)
QuadraticEquation(a, b, c) == [a |-> a, b |-> b, c |-> c]

delta(e) == Sub(Mul(e.b, e.b), Mul(Mul(Int2Num(4), e.a), e.c))

numberOfRealRoots(e) ==
    IF Less(delta(e), Int2Num(0)) THEN 0
    ELSE IF StrictEq(delta(e), Int2Num(0)) THEN 1
    ELSE 2

realRootsExist(e) == LessEq(Int2Num(0), delta(e))

\* roots() with the + branch returned for both roots.
rootsPlusBranchTwice(e) ==
    LET aa == Mul(Int2Num(2), e.a)
        plus == Add(Div(Neg(e.b), aa), Div(Sqrt(delta(e)), aa))
    IN  IF numberOfRealRoots(e) = 0 THEN <<>>
        ELSE IF numberOfRealRoots(e) = 1 THEN <<plus>>
        ELSE <<plus, plus>>

roots(e) ==
    LET rootNumber == numberOfRealRoots(e)
        aa == Mul(Int2Num(2), e.a)
        firstTerm == Div(Neg(e.b), aa)
        lastTerm == Div(Sqrt(delta(e)), aa)
    IN  IF rootNumber = 0 THEN <<>>
        ELSE IF rootNumber = 1 THEN <<firstTerm>>
        ELSE <<Add(firstTerm, lastTerm), Sub(firstTerm, lastTerm)>>

(***************************************************************************)
(* class Vector2d: a vector is [x |-> number, y |-> number].               *)
(***************************************************************************)
Vector2d(x, y) == [x |-> x, y |-> y]

innerProduct(v, w) == Add(Mul(v.x, w.x), Mul(v.y, w.y))

magnitudeSquare(v) == innerProduct(v, v)

norm(v) == Sqrt(magnitudeSquare(v))

normalize(v) == Vector2d(Div(v.x, norm(v)), Div(v.y, norm(v)))

negate(v) == Vector2d(Neg(v.x), Neg(v.y))

scaleBy(v, scalar) == Vector2d(Mul(v.x, scalar), Mul(v.y, scalar))

add(v, w) == Vector2d(Add(v.x, w.x), Add(v.y, w.y))

\* addAssign: the receiver's new value.
addAssign(v, w) == Vector2d(Add(v.x, w.x), Add(v.y, w.y))

minus(v, w) == add(v, negate(w))

\* minusAssign: the receiver's new value.
minusAssign(v, w) == Vector2d(Sub(v.x, w.x), Sub(v.y, w.y))

distanceTo(v, w) == norm(minus(v, w))

(***************************************************************************)
(* class Ball.  The world's size is the browser window's (width, height).  *)
(***************************************************************************)
width == 48

height == 44

coefficientOfMass == 10

Ball(x, y, velocityX, velocityY, color, radius) ==
    [position |-> Vector2d(x, y), velocity |-> Vector2d(velocityX, velocityY),
     color |-> color, radius |-> radius]

\* A number after JSON.stringify and JSON.parse: NaN and the infinities come
\* back as null, which every arithmetic use then reads as 0.
JsonNumber(x) == IF IsFinite(x) THEN x ELSE Int2Num(0)

\* Ball.copy
copy(ball) ==
    Ball(JsonNumber(ball.position.x), JsonNumber(ball.position.y),
         JsonNumber(ball.velocity.x), JsonNumber(ball.velocity.y),
         ball.color, JsonNumber(ball.radius))

\* coefficientOfMass * Math.PI * radius ** 2, as a multiple of Math.PI.
getMass(ball) == Mul(Int2Num(coefficientOfMass), Mul(ball.radius, ball.radius))

getMomentum(ball) == scaleBy(ball.velocity, getMass(ball))

getKineticEnergy(ball) ==
    Div(Mul(magnitudeSquare(ball.velocity), getMass(ball)), Int2Num(2))

\* getCollisionScaleFactor with the masses of its two parameters exchanged.
scaleFactorOfFirstMass(a, b) ==
    Div(Mul(Int2Num(2), getMass(a)), Add(getMass(a), getMass(b)))

getCollisionScaleFactor(a, b) ==
    Div(Mul(Int2Num(2), getMass(b)), Add(getMass(a), getMass(b)))

\* Ball.update: the ball after the call.
update(ball) ==
    LET edgeX == Add(ball.position.x, ball.radius)
        edgeY == Add(ball.position.y, ball.radius)
        vx == IF LessEq(Int2Num(width), edgeX) \/ LessEq(edgeX, Int2Num(0))
              THEN Neg(ball.velocity.x) ELSE ball.velocity.x
        vy == IF LessEq(Int2Num(height), edgeY) \/ LessEq(edgeY, Int2Num(0))
              THEN Neg(ball.velocity.y) ELSE ball.velocity.y
        v == Vector2d(vx, vy)
    IN  [ball EXCEPT !.velocity = v, !.position = addAssign(ball.position, v)]

\* this.collideBy(ball): `this` after the call.
collideBy(this, ball) ==
    LET diffPos == minus(this.position, ball.position)
        diffVel == minus(this.velocity, ball.velocity)
        csf == getCollisionScaleFactor(this, ball)
    IN  [this EXCEPT !.velocity =
            minusAssign(this.velocity,
                        scaleBy(normalize(diffPos),
                                Div(Mul(csf, innerProduct(diffPos, diffVel)), norm(diffPos))))]

\* One iteration of the loop over the roots in deoverlap: ps holds the two positions.
advanceByRoot(ps, root, v1, v2) ==
    IF Less(Int2Num(-1), root) /\ Less(root, Int2Num(1))
    THEN <<addAssign(ps[1], scaleBy(v1, root)), addAssign(ps[2], scaleBy(v2, root))>>
    ELSE ps

\* The loop over the roots in deoverlap; ps holds the two positions.
RECURSIVE advanceByRoots(_, _, _, _)
advanceByRoots(rs, ps, v1, v2) ==
    IF rs = <<>> THEN ps ELSE advanceByRoots(Tail(rs), advanceByRoot(ps, Head(rs), v1, v2), v1, v2)

\* The equation deoverlap builds from the two balls it is given.
deoverlapEquation(x1, x2) ==
    LET p1 == minusAssign(x1.position, x1.velocity)
        p2 == minusAssign(x2.position, x2.velocity)
        dx == minus(p1, p2)
        dv == minus(x1.velocity, x2.velocity)
    IN  QuadraticEquation(magnitudeSquare(dv), innerProduct(dx, dv),
                          Sub(magnitudeSquare(dx), Add(x1.radius, x2.radius)))

\* The two balls with the positions ps.
placeAt(x1, x2, ps) == <<[x1 EXCEPT !.position = ps[1]], [x2 EXCEPT !.position = ps[2]]>>

\* deoverlap(b1, b2): the two balls after the call.
deoverlap(x1, x2) ==
    placeAt(x1, x2,
            advanceByRoots(roots(deoverlapEquation(x1, x2)),
                           <<minusAssign(x1.position, x1.velocity),
                             minusAssign(x2.position, x2.velocity)>>,
                           x1.velocity, x2.velocity))

\* collide without the copy: b2 collides by the b1 that b1.collideBy left.
collideByChangedFirst(x1, x2) ==
    <<collideBy(x1, x2), collideBy(x2, collideBy(x1, x2))>>

\* collide(b1, b2): the two balls after the call.
collide(x1, x2) ==
    LET temp == copy(x1)
        y1 == collideBy(x1, x2)
    IN  <<y1, collideBy(x2, temp)>>

(***************************************************************************)
(* random and randomRGB.  Math.random() is sampled: RandomSource holds the *)
(* values of [0, 1) the model draws.  randomRGB() is modelled by the       *)
(* number of the call, the n-th call returning colour n: two calls that    *)
(* happen to return the same colour are not modelled.                      *)
(***************************************************************************)
RandomSource == {Frac(0, 1), Frac(1, 2)}

\* Math.floor of a rational.
Floor(x) == x.n \div x.d

\* The values random(min, max) can return.
random(min, max) == {Floor(QMul(u, Frac(max - min + 1, 1))) + min : u \in RandomSource}

(***************************************************************************)
(* Bounds of the world: the number of balls initializeBalls creates (25 in *)
(* the program), the number of frames, and the largest denominator a       *)
(* position or a velocity may have for loop() to be taken.                 *)
(***************************************************************************)
NumBalls == 2

MaxFrames == 2

MaxDenominator == 2

\* The balls one iteration of the loop of initializeBalls can create.
newBalls(color) ==
    UNION {UNION {{Ball(Int2Num(x), Int2Num(y), Int2Num(vx), Int2Num(vy), color, Int2Num(size)) :
                     vx \in random(-7, 7), vy \in random(-7, 7)} :
                  x \in random(0 + size, width - size), y \in random(0 + size, height - size)} :
           size \in random(10, 20)}

\* The arrays of balls initializeBalls() can leave.
initializeBalls == {bs \in [1..NumBalls -> newBalls(0)] : TRUE}

\* A number the model carries from one step of loop() to the next.
Carried(x) == ~IsFinite(x) \/ (IsRational(x) /\ x.d <= MaxDenominator)

Representable(ball) ==
    /\ Carried(ball.position.x) /\ Carried(ball.position.y)
    /\ Carried(ball.velocity.x) /\ Carried(ball.velocity.y)

\* Whether this.collisionDetect() finds `ball` colliding with `this`.
colliding(this, ball) ==
    Less(distanceTo(this.position, ball.position), Add(this.radius, ball.radius))

\* The end of the body of the `if` in collisionDetect: the two balls after
\* collide, recoloured with one randomRGB(), and the pair noted as processed.
afterCollide(w, i, j, c) ==
    [w EXCEPT !.balls = [w.balls EXCEPT ![i] = [c[1] EXCEPT !.color = w.rgbCalls + 1],
                                        ![j] = [c[2] EXCEPT !.color = w.rgbCalls + 1]],
              !.processed = Append(w.processed, <<i, j>>),
              !.rgbCalls = w.rgbCalls + 1,
              !.ok = Representable(c[1]) /\ Representable(c[2])]

\* The body of the `if`, from the two balls d that deoverlap left.
afterDeoverlap(w, i, j, d) ==
    IF Representable(d[1]) /\ Representable(d[2])
    THEN afterCollide(w, i, j, collide(d[1], d[2]))
    ELSE [w EXCEPT !.ok = FALSE]

\* The iteration of the loop of collisionDetect without the test this !== ball.
detectStepWithSelf(w, i, j) ==
    IF w.ok /\ colliding(w.balls[i], w.balls[j])
    THEN afterDeoverlap(w, i, j, deoverlap(w.balls[i], w.balls[j]))
    ELSE w

\* One iteration of the loop of collisionDetect: balls[i] is `this`, balls[j]
\* is `ball`.  w is the state of loop(): the array, the totals, the pairs
\* processed so far, the number of randomRGB() calls, and whether every
\* number is still one the model carries.
detectStep(w, i, j) ==
    IF w.ok /\ i # j /\ colliding(w.balls[i], w.balls[j])
    THEN afterDeoverlap(w, i, j, deoverlap(w.balls[i], w.balls[j]))
    ELSE w

\* The loop of collisionDetect from index j of the array on.
RECURSIVE scanFrom(_, _, _)
scanFrom(w, i, j) == IF j > Len(w.balls) THEN w ELSE scanFrom(detectStep(w, i, j), i, j + 1)

\* balls[i].collisionDetect()
collisionDetect(w, i) == scanFrom(w, i, 1)

\* The statements of the body of the loop of loop() before collisionDetect.
accumulateAndUpdate(w, i) ==
    [w EXCEPT !.totalKineticEnergy = Add(w.totalKineticEnergy, getKineticEnergy(w.balls[i])),
              !.totalMomentum = addAssign(w.totalMomentum, getMomentum(w.balls[i])),
              !.balls = [w.balls EXCEPT ![i] = update(w.balls[i])]]

\* One iteration of the loop of loop().
loopStep(w, i) == IF w.ok THEN collisionDetect(accumulateAndUpdate(w, i), i) ELSE w

\* The loop of loop() from index i of the array on.
RECURSIVE loopFrom(_, _)
loopFrom(w, i) == IF i > Len(w.balls) THEN w ELSE loopFrom(loopStep(w, i), i + 1)

\* loop(): the state it leaves.
loop(bs, rgb) ==
    loopFrom([balls |-> bs, totalKineticEnergy |-> Int2Num(0),
              totalMomentum |-> Vector2d(Int2Num(0), Int2Num(0)),
              processed |-> <<>>, rgbCalls |-> rgb, ok |-> TRUE], 1)

(***************************************************************************)
(* Idle values: what the variables of the other specifications hold.       *)
(***************************************************************************)
NoBall == Ball(Int2Num(0), Int2Num(0), Int2Num(0), Int2Num(0), 0, Int2Num(0))

NoEquation == QuadraticEquation(Int2Num(0), Int2Num(0), Int2Num(0))

WorldIdle ==
    /\ balls = <<>>
    /\ started = FALSE
    /\ frames = 0
    /\ totalKineticEnergy = Int2Num(0)
    /\ totalMomentum = Vector2d(Int2Num(0), Int2Num(0))
    /\ processed = <<>>
    /\ rgbCalls = 0

QeIdle == qe = NoEquation /\ rootNum = -1 /\ rootsOut = <<>>

PairIdle == b1 = NoBall /\ b2 = NoBall /\ in1 = NoBall /\ in2 = NoBall /\ called = "none"

(***************************************************************************)
(* QuadraticEquation on its own.  The coefficients are the rationals n/d   *)
(* with |n| <= MaxCoef and 1 <= d <= CoefDen.                              *)
(***************************************************************************)
MaxCoef == 4

CoefDen == 2

Coefs == {Num(n, d) : n \in -MaxCoef..MaxCoef, d \in 1..CoefDen}

InitQuadratic ==
    /\ WorldIdle
    /\ PairIdle
    /\ qe \in {QuadraticEquation(a, b, c) : a \in Coefs, b \in Coefs, c \in Coefs}
    /\ rootNum = -1
    /\ rootsOut = <<>>

\* qe.numberOfRealRoots() and qe.roots() are called on the equation.
Solve ==
    /\ rootNum = -1
    /\ rootNum' = numberOfRealRoots(qe)
    /\ rootsOut' = roots(qe)
    /\ UNCHANGED <<qe, worldVars, pairVars>>

NextQuadratic == Solve

SpecQuadratic == InitQuadratic /\ [][NextQuadratic]_vars

(***************************************************************************)
(* collide, deoverlap and Ball.update on their own, applied once to balls  *)
(* drawn from bounded sets: integer coordinates, velocity components in    *)
(* -MaxSpeed..MaxSpeed, radii in MinSize..MinSize+SizeSpan.                *)
(***************************************************************************)
MinSize == 10

SizeSpan == 1

MaxSpeed == 1

CollideSpan == 1

DeoverlapSpan == 4

UpdateMargin == 12

\* The balls with centre in xs \X ys.
BallsAt(xs, ys) ==
    {Ball(Int2Num(x), Int2Num(y), Int2Num(vx), Int2Num(vy), 0, Int2Num(size)) :
        x \in xs, y \in ys, vx \in -MaxSpeed..MaxSpeed, vy \in -MaxSpeed..MaxSpeed,
        size \in MinSize..(MinSize + SizeSpan)}

InitPair(first, second) ==
    /\ WorldIdle
    /\ QeIdle
    /\ b1 \in first
    /\ b2 \in second
    /\ in1 = b1
    /\ in2 = b2
    /\ called = "none"

InitCollide ==
    InitPair(BallsAt(0..CollideSpan, -CollideSpan..CollideSpan), BallsAt({0}, {0}))

InitDeoverlap ==
    InitPair(BallsAt(0..DeoverlapSpan, 0..DeoverlapSpan), BallsAt({0}, {0}))

InitUpdate ==
    InitPair(BallsAt(-UpdateMargin..width, -UpdateMargin..height), {NoBall})

\* The two balls a call leaves in the variables.
Returned(pair, name) ==
    /\ b1' = pair[1]
    /\ b2' = pair[2]
    /\ called' = name
    /\ UNCHANGED <<in1, in2, worldVars, qeVars>>

Collide == called = "none" /\ Returned(collide(b1, b2), "collide")

Deoverlap == called = "none" /\ Returned(deoverlap(b1, b2), "deoverlap")

Update == called = "none" /\ Returned(<<update(b1), b2>>, "update")

NextCollide == Collide

NextDeoverlap == Deoverlap

NextUpdate == Update

SpecCollide == InitCollide /\ [][NextCollide]_vars

SpecDeoverlap == InitDeoverlap /\ [][NextDeoverlap]_vars

SpecUpdate == InitUpdate /\ [][NextUpdate]_vars

(***************************************************************************)
(* The program: initializeBalls() once, then loop() on every animation     *)
(* frame.                                                                  *)
(***************************************************************************)
Init == WorldIdle /\ QeIdle /\ PairIdle

InitializeBalls ==
    /\ ~started
    /\ \E bs \in initializeBalls :
          balls' = [i \in 1..NumBalls |-> [bs[i] EXCEPT !.color = i]]
    /\ rgbCalls' = NumBalls
    /\ started' = TRUE
    /\ UNCHANGED <<frames, totalKineticEnergy, totalMomentum, processed, qeVars, pairVars>>

\* The end of loop(): the totals are displayed; w is the state loop() reached.
Display(w) ==
    /\ w.ok
    /\ balls' = w.balls
    /\ totalKineticEnergy' = w.totalKineticEnergy
    /\ totalMomentum' = w.totalMomentum
    /\ processed' = w.processed
    /\ rgbCalls' = w.rgbCalls

Loop ==
    /\ started
    /\ frames < MaxFrames
    /\ Display(loop(balls, rgbCalls))
    /\ frames' = frames + 1
    /\ UNCHANGED <<started, qeVars, pairVars>>

Next == InitializeBalls \/ Loop

Spec == Init /\ [][Next]_vars

(***************************************************************************)
(* Properties of QuadraticEquation, checked in SpecQuadratic.              *)
(***************************************************************************)

\* a*x^2 + b*x + c for the equation e.
valueAt(e, x) == Add(Add(Mul(e.a, Mul(x, x)), Mul(e.b, x)), e.c)

\* C6: for a # 0, QuadraticEquation reports two, one or no real roots as the
\* discriminant b^2 - 4ac is positive, zero or negative, and roots() returns
\* exactly that many numbers, each a solution of a*x^2 + b*x + c = 0; in the
\* two-root case they are the two distinct solutions (their sum is -b/a and
\* their product c/a), the + branch of sqrt(delta)/(2a) first; (1,0,-4)
\* gives 2 and -2, (1,2,1) gives -1 alone and (1,0,1) gives none.
QuadraticRootsAreTheRealRoots ==
    /\ rootNum # -1 /\ Sign(qe.a) # 0 =>
          /\ rootNum = (IF Sign(Sub(Mul(qe.b, qe.b), Mul(Int2Num(4), Mul(qe.a, qe.c)))) > 0 THEN 2
                        ELSE IF Sign(Sub(Mul(qe.b, qe.b), Mul(Int2Num(4), Mul(qe.a, qe.c)))) = 0 THEN 1
                        ELSE 0)
          /\ Len(rootsOut) = rootNum
          /\ \A k \in 1..Len(rootsOut) :
                IsFinite(rootsOut[k]) /\ Sign(valueAt(qe, rootsOut[k])) = 0
          /\ rootNum = 2 =>
                /\ Sign(Sub(Add(rootsOut[1], rootsOut[2]), Div(Neg(qe.b), qe.a))) = 0
                /\ Sign(Sub(Mul(rootsOut[1], rootsOut[2]), Div(qe.c, qe.a))) = 0
                /\ Sign(Sub(rootsOut[1], rootsOut[2])) = Sign(qe.a)
    /\ roots(QuadraticEquation(Int2Num(1), Int2Num(0), Int2Num(-4))) = <<Int2Num(2), Int2Num(-2)>>
    /\ roots(QuadraticEquation(Int2Num(1), Int2Num(2), Int2Num(1))) = <<Int2Num(-1)>>
    /\ roots(QuadraticEquation(Int2Num(1), Int2Num(0), Int2Num(1))) = <<>>

\* Two irrational roots of an equation with a # 0 and b # 0 have been returned.
QuadraticTwoIrrationalRoots ==
    /\ rootNum = 2
    /\ Len(rootsOut) = 2
    /\ Sign(qe.a) # 0
    /\ Sign(qe.b) # 0
    /\ ~IsRational(rootsOut[1])
    /\ ~IsRational(rootsOut[2])

(***************************************************************************)
(* Properties of collide, checked in SpecCollide.                          *)
(***************************************************************************)

\* C1: collide changes the two velocities so that the sum of the momenta
\* (mass times velocity) of the pair is the same after the call as before,
\* and leaves both positions and both radii as they were.
CollideConservesMomentum ==
    called = "collide" /\ in1.position # in2.position =>
        /\ StrictEq(Add(getMomentum(b1).x, getMomentum(b2).x),
                    Add(getMomentum(in1).x, getMomentum(in2).x))
        /\ StrictEq(Add(getMomentum(b1).y, getMomentum(b2).y),
                    Add(getMomentum(in1).y, getMomentum(in2).y))
        /\ b1.position = in1.position
        /\ b2.position = in2.position
        /\ b1.radius = in1.radius
        /\ b2.radius = in2.radius

\* collide has changed both velocities of two balls of different radii.
CollideChangedUnequalBalls ==
    /\ called = "collide"
    /\ in1.position # in2.position
    /\ in1.radius # in2.radius
    /\ b1.velocity # in1.velocity
    /\ b2.velocity # in2.velocity

\* C2: two balls of equal radius that approach each other along the line
\* through their centres with velocities v and -v leave collide with
\* velocities -v and v.
HeadOnEqualBallsSwap ==
    (/\ called = "collide"
     /\ in1.radius = in2.radius
     /\ in1.position # in2.position
     /\ in2.velocity = negate(in1.velocity)
     /\ Sign(Sub(Mul(Sub(in1.position.x, in2.position.x), in1.velocity.y),
                 Mul(Sub(in1.position.y, in2.position.y), in1.velocity.x))) = 0
     /\ Sign(innerProduct(minus(in1.position, in2.position), in1.velocity)) < 0)
    => /\ b1.velocity = negate(in1.velocity)
       /\ b2.velocity = in1.velocity

\* collide has been applied to two equal balls meeting head-on on a diagonal.
HeadOnDiagonalCollision ==
    /\ called = "collide"
    /\ in1.radius = in2.radius
    /\ in2.velocity = negate(in1.velocity)
    /\ Sign(in1.velocity.x) # 0
    /\ Sign(in1.velocity.y) # 0
    /\ Sign(Sub(Mul(Sub(in1.position.x, in2.position.x), in1.velocity.y),
                Mul(Sub(in1.position.y, in2.position.y), in1.velocity.x))) = 0
    /\ Sign(innerProduct(minus(in1.position, in2.position), in1.velocity)) < 0
    /\ b1.velocity = in2.velocity

(***************************************************************************)
(* Properties of deoverlap, checked in SpecDeoverlap.  Every pair of balls *)
(* of SpecDeoverlap overlaps, as collisionDetect requires before the call. *)
(***************************************************************************)

\* The position of a ball one velocity back: the rewound frame of deoverlap.
rewound(ball) == minusAssign(ball.position, ball.velocity)

\* Whether deoverlap advances the balls by the root t.
withinLastStep(t) == Less(Int2Num(-1), t) /\ Less(t, Int2Num(1))

\* Whether `position` is `from` advanced by t times `velocity`.
advancedBy(position, from, velocity, t) ==
    /\ StrictEq(position.x, Add(from.x, Mul(velocity.x, t)))
    /\ StrictEq(position.y, Add(from.y, Mul(velocity.y, t)))

\* C3: every real root t of the equation deoverlap builds is a time of
\* contact: with dx and dv the relative position and velocity in the rewound
\* frame, |dx + t*dv|^2 = (r1 + r2)^2.
DeoverlapRootsAreContactTimes ==
    called = "deoverlap" =>
        \A k \in 1..Len(roots(deoverlapEquation(in1, in2))) :
            IsFinite(roots(deoverlapEquation(in1, in2))[k]) =>
                StrictEq(magnitudeSquare(add(minus(rewound(in1), rewound(in2)),
                                             scaleBy(minus(in1.velocity, in2.velocity),
                                                     roots(deoverlapEquation(in1, in2))[k]))),
                         Mul(Add(in1.radius, in2.radius), Add(in1.radius, in2.radius)))

\* C7: when the equation of deoverlap has no real root, the call leaves the
\* positions and the velocities of both balls as they were before it.
DeoverlapWithoutRootsChangesNothing ==
    called = "deoverlap" /\ numberOfRealRoots(deoverlapEquation(in1, in2)) = 0 =>
        /\ b1.position = in1.position
        /\ b2.position = in2.position
        /\ b1.velocity = in1.velocity
        /\ b2.velocity = in2.velocity

\* C8: when deoverlap corrects the positions, there is one root t of its
\* equation with -1 < t < 1 such that each ball ends at its rewound position
\* plus t times its velocity, also when both roots lie in (-1, 1).
DeoverlapAdvancesByOneRoot ==
    (/\ called = "deoverlap"
     /\ \E k \in 1..Len(roots(deoverlapEquation(in1, in2))) :
           withinLastStep(roots(deoverlapEquation(in1, in2))[k]))
    => \E k \in 1..Len(roots(deoverlapEquation(in1, in2))) :
          /\ withinLastStep(roots(deoverlapEquation(in1, in2))[k])
          /\ advancedBy(b1.position, rewound(in1), in1.velocity,
                        roots(deoverlapEquation(in1, in2))[k])
          /\ advancedBy(b2.position, rewound(in2), in2.velocity,
                        roots(deoverlapEquation(in1, in2))[k])

(***************************************************************************)
(* Property of Ball.update, checked in SpecUpdate.                         *)
(***************************************************************************)

\* C4: Ball.update negates a velocity component whenever the edge of the
\* ball has crossed a boundary of that axis, center - radius <= 0 as well as
\* center + radius >= width (or height), and then advances the position by
\* the velocity it has left.
UpdateReflectsAtEveryBoundary ==
    called = "update" =>
        /\ (\/ LessEq(Sub(in1.position.x, in1.radius), Int2Num(0))
            \/ LessEq(Int2Num(width), Add(in1.position.x, in1.radius)))
           => b1.velocity.x = Neg(in1.velocity.x)
        /\ (\/ LessEq(Sub(in1.position.y, in1.radius), Int2Num(0))
            \/ LessEq(Int2Num(height), Add(in1.position.y, in1.radius)))
           => b1.velocity.y = Neg(in1.velocity.y)
        /\ b1.position = add(in1.position, b1.velocity)

(***************************************************************************)
(* Properties of the program, checked in Spec.                             *)
(***************************************************************************)

\* C5: after initializeBalls no two distinct balls overlap: the distance
\* between their centres is at least the sum of their radii.
NoOverlapAfterInitialization ==
    started /\ frames = 0 =>
        \A i \in 1..Len(balls) : \A j \in 1..Len(balls) :
            i # j => LessEq(Add(balls[i].radius, balls[j].radius),
                            distanceTo(balls[i].position, balls[j].position))

\* C9: a pair found colliding in the scan of one of its balls is found
\* colliding in the scan of the other in the same loop() too, so that the
\* pair is processed exactly twice, once from each side.
CollidingPairProcessedFromBothSides ==
    \A k \in 1..Len(processed) :
        /\ \E m \in 1..Len(processed) : processed[m] = <<processed[k][2], processed[k][1]>>
        /\ Cardinality({m \in 1..Len(processed) :
                           {processed[m][1], processed[m][2]} =
                           {processed[k][1], processed[k][2]}}) = 2

\* C9, amended: every ball scans all the other balls and never itself, in
\* the order of the array, so that a pair is processed at most once from
\* each side in one loop(), hence at most twice.
CollidingPairProcessedAtMostOncePerSide ==
    \A k \in 1..Len(processed) :
        /\ processed[k][1] # processed[k][2]
        /\ \A m \in 1..Len(processed) :
              /\ m # k => processed[m] # processed[k]
              /\ k < m => processed[k][1] <= processed[m][1]
        /\ Cardinality({m \in 1..Len(processed) :
                           {processed[m][1], processed[m][2]} =
                           {processed[k][1], processed[k][2]}}) <= 2

\* A loop() has processed a pair from one side and not from the other.
PairProcessedFromOneSideOnly ==
    /\ frames > 0
    /\ \E k \in 1..Len(processed) :
          \A m \in 1..Len(processed) : processed[m] # <<processed[k][2], processed[k][1]>>

\* The sum of the momenta of the first n balls of bs.
RECURSIVE momentumOfFirst(_, _)
momentumOfFirst(bs, n) ==
    IF n = 0 THEN Vector2d(Int2Num(0), Int2Num(0))
    ELSE addAssign(momentumOfFirst(bs, n - 1), getMomentum(bs[n]))

\* The sum of the kinetic energies of the first n balls of bs.
RECURSIVE kineticEnergyOfFirst(_, _)
kineticEnergyOfFirst(bs, n) ==
    IF n = 0 THEN Int2Num(0)
    ELSE Add(kineticEnergyOfFirst(bs, n - 1), getKineticEnergy(bs[n]))

\* C10: the totals a loop() displays are those of one state of the world,
\* the one at the start of the loop(): the total momentum is the sum of the
\* momenta and the total kinetic energy the sum of the kinetic energies of
\* the balls as they were when the loop() began.
ReportedTotalsAreOfTheStartOfTheTick ==
    [][frames' # frames =>
          /\ totalMomentum' = momentumOfFirst(balls, Len(balls))
          /\ totalKineticEnergy' = kineticEnergyOfFirst(balls, Len(balls))]_vars

====
